---- MODULE Spec2Model ----
(***************************************************************************)
(* A model of contentmaker's youtube.py: the transcript cache, the         *)
(* chunked-continuation normalization loop and the per-video pipeline run  *)
(* as concurrent asyncio tasks under one gather.                           *)
(*                                                                         *)
(* Texts are sequences of symbols.  A symbol is one character; the only    *)
(* exceptions are the fixed literals of the prompt template, each kept as  *)
(* one symbol.  An occurrence of the start marker inside an input or a     *)
(* completion is the symbol START_MARKER.                                  *)
(***************************************************************************)
EXTENDS Integers, Sequences, FiniteSets, TLC

(***************************************************************************)
(* Bounds of the model.                                                    *)
(***************************************************************************)
NumTasks == 2
MaxCalls == 2
NumFetchers == 3

(***************************************************************************)
(* Python string primitives.                                               *)
(***************************************************************************)
Whitespace == {" ", "\n", "\t", "\r"}

Range(s) == {s[i] : i \in 1..Len(s)}

Take(s, n) == SubSeq(s, 1, IF n < Len(s) THEN n ELSE Len(s))

Drop(s, n) == SubSeq(s, n + 1, Len(s))

Truthy(s) == s # <<>>

Last(s) == s[Len(s)]

\* The positions of s that hold something other than whitespace.
Inked(s) == {i \in 1..Len(s) : s[i] \notin Whitespace}

LStrip(s) ==
    IF Inked(s) = {} THEN <<>>
    ELSE SubSeq(s, CHOOSE i \in Inked(s) : \A j \in Inked(s) : i <= j, Len(s))

RStrip(s) ==
    IF Inked(s) = {} THEN <<>>
    ELSE SubSeq(s, 1, CHOOSE i \in Inked(s) : \A j \in Inked(s) : j <= i)

Strip(s) == RStrip(LStrip(s))

EndsWith(s, suffix) ==
    /\ Len(suffix) <= Len(s)
    /\ SubSeq(s, Len(s) - Len(suffix) + 1, Len(s)) = suffix

RECURSIVE Concat(_)
Concat(ss) == IF ss = <<>> THEN <<>> ELSE Head(ss) \o Concat(Tail(ss))

(***************************************************************************)
(* json.dumps(cache_data, ensure_ascii=False, indent=2) of the record      *)
(* {"title": ..., "transcript": ...} and json.loads of a file's text.      *)
(***************************************************************************)
DQ == "\""
BS == "\\"
NL == "\n"

JsonEscapeChar_QuoteUnescaped(c) ==
    IF c = BS THEN <<BS, BS>>
    ELSE IF c = NL THEN <<BS, "n">>
    ELSE <<c>>

JsonEscapeChar(c) ==
    IF c = DQ THEN <<BS, DQ>>
    ELSE IF c = BS THEN <<BS, BS>>
    ELSE IF c = NL THEN <<BS, "n">>
    ELSE IF c = "\t" THEN <<BS, "t">>
    ELSE IF c = "\r" THEN <<BS, "r">>
    ELSE <<c>>

RECURSIVE JsonEscape(_)
JsonEscape(s) ==
    IF s = <<>> THEN <<>> ELSE JsonEscapeChar(Head(s)) \o JsonEscape(Tail(s))

JsonString(s) == <<DQ>> \o JsonEscape(s) \o <<DQ>>

KeyTitle == <<"t", "i", "t", "l", "e">>
KeyTranscript == <<"t", "r", "a", "n", "s", "c", "r", "i", "p", "t">>

JsonDumps(ti, tr) ==
    <<"{", NL, " ", " ">> \o JsonString(KeyTitle) \o <<":", " ">> \o JsonString(ti)
    \o <<",", NL, " ", " ">> \o JsonString(KeyTranscript) \o <<":", " ">>
    \o JsonString(tr) \o <<NL, "}">>

\* The position of the first symbol at or after i that is not JSON whitespace.
RECURSIVE SkipWs(_, _)
SkipWs(s, i) ==
    IF i <= Len(s) /\ s[i] \in Whitespace THEN SkipWs(s, i + 1) ELSE i

JsonFail == [ok |-> FALSE, val |-> <<>>, next |-> 0]

\* Scans a string's body from position i (after the opening quote).
RECURSIVE ScanString(_, _, _)
ScanString(s, i, acc) ==
    IF i > Len(s) THEN JsonFail
    ELSE IF s[i] = DQ THEN [ok |-> TRUE, val |-> acc, next |-> i + 1]
    ELSE IF s[i] = BS THEN
        IF i + 1 > Len(s) THEN JsonFail
        ELSE IF s[i + 1] = DQ THEN ScanString(s, i + 2, Append(acc, DQ))
        ELSE IF s[i + 1] = BS THEN ScanString(s, i + 2, Append(acc, BS))
        ELSE IF s[i + 1] = "n" THEN ScanString(s, i + 2, Append(acc, NL))
        ELSE IF s[i + 1] = "t" THEN ScanString(s, i + 2, Append(acc, "\t"))
        ELSE IF s[i + 1] = "r" THEN ScanString(s, i + 2, Append(acc, "\r"))
        ELSE JsonFail
    ELSE IF s[i] \in {NL, "\t", "\r"} THEN JsonFail
    ELSE ScanString(s, i + 1, Append(acc, s[i]))

ParseString(s, i) ==
    IF i <= Len(s) /\ s[i] = DQ THEN ScanString(s, i + 1, <<>>) ELSE JsonFail

\* The members of an object whose values are strings, from position i (after
\* the opening brace or a comma); val is a sequence of <<key, value>> pairs.
RECURSIVE ParseMembers(_, _, _)
ParseMembers(s, i, acc) ==
    LET k == ParseString(s, SkipWs(s, i)) IN
    IF ~k.ok THEN JsonFail
    ELSE LET c == SkipWs(s, k.next) IN
    IF ~(c <= Len(s) /\ s[c] = ":") THEN JsonFail
    ELSE LET v == ParseString(s, SkipWs(s, c + 1)) IN
    IF ~v.ok THEN JsonFail
    ELSE LET e == SkipWs(s, v.next)
             members == Append(acc, <<k.val, v.val>>) IN
    IF e > Len(s) THEN JsonFail
    ELSE IF s[e] = "," THEN ParseMembers(s, e + 1, members)
    ELSE IF s[e] = "}" THEN [ok |-> TRUE, val |-> members, next |-> e + 1]
    ELSE JsonFail

\* json.loads: ok is FALSE where it raises (malformed text, extra data).
JsonLoads(s) ==
    LET b == SkipWs(s, 1) IN
    IF ~(b <= Len(s) /\ s[b] = "{") THEN JsonFail
    ELSE LET m == ParseMembers(s, b + 1, <<>>) IN
    IF ~m.ok THEN JsonFail
    ELSE IF SkipWs(s, m.next) <= Len(s) THEN JsonFail
    ELSE m

\* cache_data[key]: the value of the last member named key; ok is FALSE on KeyError.
JsonGet(members, key) ==
    LET hits == {i \in 1..Len(members) : members[i][1] = key} IN
    IF hits = {} THEN [ok |-> FALSE, val |-> <<>>]
    ELSE [ok |-> TRUE, val |-> members[CHOOSE i \in hits : \A j \in hits : j <= i][2]]

(***************************************************************************)
(* normalize_transcript: the prompt template, one iteration of its loop    *)
(* and the extraction of the normalized text.                              *)
(***************************************************************************)
PrefixLen == 20

START_MARKER == "<START NORMALIZED TRANSCRIPT>"

THE_END == <<"T", "H", "E", " ", "E", "N", "D">>

SeedPrompt(g, ti, tr) ==
    <<"<START GAINING KNOWLEDGE>">> \o g
    \o <<"<END GAINING KNOWLEDGE> <START AUTOMATICALLY GENERATED TRANSCRIPT>">>
    \o ti \o <<NL, NL>> \o tr
    \o <<"<END AUTOMATICALLY GENERATED TRANSCRIPT> <START GUIDELINES FOR THE ASSISTANT> ",
         "Normalize this transcript verbatim from the start to the end. Do not write anything else. ",
         "The original transcript was automatically generated, so it contains mistakes and incorrectly transcribed terms that you should already know. ",
         "Stop only when you hit the length limit. Do not output that you've reached the limit. If you reach the end of the original transcript, write THE END. ",
         "<END GUIDELINES FOR THE ASSISTANT> ">>
    \o <<START_MARKER>>

\* if result[:20] != prev_result[:20]: prompt += result
AppendResult_PrefixOnly(p, prev, res) ==
    IF Take(res, PrefixLen) # Take(prev, PrefixLen) THEN p \o Take(res, PrefixLen) ELSE p

AppendResult(p, prev, res) ==
    IF Take(res, PrefixLen) # Take(prev, PrefixLen) THEN p \o res ELSE p

\* result.strip().endswith("THE END") and all([x not in result for x in ["[", "]"]])
ShouldStop_NoBracketGuard(res) == EndsWith(Strip(res), THE_END)

ShouldStop(res) ==
    EndsWith(Strip(res), THE_END) /\ \A x \in {"[", "]"} : x \notin Range(res)

\* prompt.split("<START NORMALIZED TRANSCRIPT>")[1]
ExtractNormalized_WithoutLastLine(p) ==
    LET at == {i \in 1..Len(p) : p[i] = START_MARKER}
        first == CHOOSE i \in at : \A j \in at : i <= j
        body == SubSeq(p, first + 1, Len(p))
        breaks == {i \in 1..Len(body) : body[i] = NL}
    IN  IF breaks = {} THEN <<>>
        ELSE SubSeq(body, 1, CHOOSE i \in breaks : \A j \in breaks : j <= i)

ExtractNormalized(p) ==
    LET at == {i \in 1..Len(p) : p[i] = START_MARKER}
        first == CHOOSE i \in at : \A j \in at : i <= j
        later == {i \in at : i > first}
        stop == IF later = {} THEN Len(p) + 1
                ELSE CHOOSE i \in later : \A j \in later : i <= j
    IN  SubSeq(p, first + 1, stop - 1)

\* What the completion client hands back: an exception, or message.content
\* (None, or a text that may be empty).
Raise == [kind |-> "raise", text |-> <<>>]
NoContent == [kind |-> "none", text |-> <<>>]
Content(x) == [kind |-> "content", text |-> x]

\* One iteration of the while loop on the outcome o of call_openai_api, with
\* the prompt p and prev_result prev: the new prompt, how the iteration ends
\* ("loop", "return", "none" for return None, "raise") and the returned text.
NormalizeStep_RetryOnRaise(p, prev, o) ==
    IF o.kind = "raise" \/ ~Truthy(o.text)
    THEN [prompt |-> p, next |-> IF o.kind = "raise" THEN "loop" ELSE "none", ret |-> <<>>]
    ELSE LET p2 == AppendResult(p, prev, o.text) IN
         IF ShouldStop(o.text)
         THEN [prompt |-> p2, next |-> "return", ret |-> ExtractNormalized(p2)]
         ELSE [prompt |-> p2, next |-> "loop", ret |-> <<>>]

NormalizeStep_SkipEmpty(p, prev, o) ==
    IF o.kind = "raise" THEN [prompt |-> p, next |-> "raise", ret |-> <<>>]
    ELSE IF ~Truthy(o.text) THEN [prompt |-> p, next |-> "loop", ret |-> <<>>]
    ELSE LET p2 == AppendResult(p, prev, o.text) IN
         IF ShouldStop(o.text)
         THEN [prompt |-> p2, next |-> "return", ret |-> ExtractNormalized(p2)]
         ELSE [prompt |-> p2, next |-> "loop", ret |-> <<>>]

NormalizeStep_SecondCallLast(p, prev, o) ==
    IF o.kind = "raise" THEN [prompt |-> p, next |-> "raise", ret |-> <<>>]
    ELSE IF ~Truthy(o.text) THEN [prompt |-> p, next |-> "none", ret |-> <<>>]
    ELSE LET p2 == AppendResult(p, prev, o.text) IN
         IF ShouldStop(o.text)
         THEN [prompt |-> p2, next |-> "return", ret |-> ExtractNormalized(p2)]
         ELSE IF Last(p) # START_MARKER
         THEN [prompt |-> p2, next |-> "none", ret |-> <<>>]
         ELSE [prompt |-> p2, next |-> "loop", ret |-> <<>>]

NormalizeStep(p, prev, o) ==
    IF o.kind = "raise" THEN [prompt |-> p, next |-> "raise", ret |-> <<>>]
    ELSE IF ~Truthy(o.text) THEN [prompt |-> p, next |-> "none", ret |-> <<>>]
    ELSE LET p2 == AppendResult(p, prev, o.text) IN
         IF ShouldStop(o.text)
         THEN [prompt |-> p2, next |-> "return", ret |-> ExtractNormalized(p2)]
         ELSE [prompt |-> p2, next |-> "loop", ret |-> <<>>]

(***************************************************************************)
(* sanitize_filename and the paths of the cache and output files.          *)
(***************************************************************************)
MaxFilenameLen == 200

AllowedChars ==
    {"a", "b", "c", "d", "e", "f", "g", "h", "i", "j", "k", "l", "m",
     "n", "o", "p", "q", "r", "s", "t", "u", "v", "w", "x", "y", "z",
     "A", "B", "C", "D", "E", "F", "G", "H", "I", "J", "K", "L", "M",
     "N", "O", "P", "Q", "R", "S", "T", "U", "V", "W", "X", "Y", "Z",
     "0", "1", "2", "3", "4", "5", "6", "7", "8", "9", "_", "-", "."}

\* filename.replace(" ", "_")
ReplaceSpaces(s) == [i \in 1..Len(s) |-> IF s[i] = " " THEN "_" ELSE s[i]]

\* re.sub(r"[^A-Za-z0-9_\-\.]", "", filename)
RemoveDisallowed(s) == SelectSeq(s, LAMBDA c : c \in AllowedChars)

sanitize_filename_NoLimit(filename) ==
    RemoveDisallowed(ReplaceSpaces(Strip(filename)))

sanitize_filename(filename) ==
    Take(RemoveDisallowed(ReplaceSpaces(Strip(filename))), MaxFilenameLen)

CACHE_DIR == "transcript_cache"
OUTPUTS_DIR == "outputs"

\* CACHE_DIR / f"{video_id}.json"
get_cache_path(video_id) == <<CACHE_DIR, <<video_id, ".json">> >>

\* OUTPUTS_DIR / f"{safe_title}.txt", safe_title = sanitize_filename(title) or "video"
OutputPath(ti) ==
    LET safe_title == IF Truthy(sanitize_filename(ti)) THEN sanitize_filename(ti)
                      ELSE <<"v", "i", "d", "e", "o">>
    IN  <<OUTPUTS_DIR, safe_title \o <<".txt">> >>

(***************************************************************************)
(* Files.  A file system maps the paths that exist to their contents.  A   *)
(* writer opened with "w" truncates the file and then writes at its own    *)
(* offset; a gap left by another writer's truncation reads as NUL.         *)
(***************************************************************************)
NUL == "\\0"

Exists(files, path) == path \in DOMAIN files

PutFile(files, path, text) ==
    [q \in DOMAIN files \cup {path} |-> IF q = path THEN text ELSE files[q]]

WriteAt(old, off, data) ==
    LET padded == IF Len(old) < off
                  THEN old \o [i \in 1..(off - Len(old)) |-> NUL]
                  ELSE old
    IN  Take(padded, off) \o data \o Drop(padded, off + Len(data))

\* The leading part of the data that the buffered writer puts on disk before
\* the file is closed, when the data does not fit its buffer.
FlushedPart(data) == Len(data) \div 2

\* read_from_cache once the file's text is in: the pair it returns and
\* whether it caught an exception (a failed read, json.loads, a missing key).
ReadFromCache(buf) ==
    LET doc == JsonLoads(buf.text)
        ti == JsonGet(doc.val, KeyTitle)
        tr == JsonGet(doc.val, KeyTranscript)
    IN  IF buf.ok /\ doc.ok /\ ti.ok /\ tr.ok
        THEN [title |-> ti.val, transcript |-> tr.val, err |-> FALSE]
        ELSE [title |-> <<>>, transcript |-> <<>>, err |-> TRUE]

\* if cached_title and cached_transcript
CacheHit_Never(r) == FALSE

CacheHit_Always(r) == TRUE

CacheHit(r) == Truthy(r.title) /\ Truthy(r.transcript)

\* The cache files that hold an entry fetch_transcript would use: one that
\* read_from_cache reads without an exception and that counts as a hit.
ValidEntries(files) ==
    {path \in DOMAIN files :
        /\ path[1] = CACHE_DIR
        /\ LET r == ReadFromCache([ok |-> TRUE, text |-> files[path]])
           IN  ~r.err /\ CacheHit(r)}

(***************************************************************************)
(* State.  Each process_video task t runs from one await to the next in    *)
(* one step; a file operation handed to the thread pool takes effect in a  *)
(* step of its own.                                                        *)
(***************************************************************************)
VARIABLES
    glossary,     \* the glossary text read once by main
    fs,           \* the files on disk
    pc,           \* the await each task is suspended at
    vid,          \* fetch_transcript's video_id
    title,        \* the title fetch_transcript returns
    transcript,   \* the transcript fetch_transcript returns
    readBuf,      \* what f.read() gave read_from_cache
    woff,         \* how much of the data being written is on disk
    prompt,       \* normalize_transcript's prompt
    prev_result,  \* normalize_transcript's prev_result
    normalized,   \* what normalize_transcript came back with
    notes,        \* the messages each task handed to send_telegram_message
    results,      \* history: the outcomes of each task's completion calls
    lookups,      \* history: how each task's calls of get_youtube_transcript ended
    opened,       \* history: the paths each task opened for writing
    closed,       \* history: the paths each task wrote and closed
    written,      \* history: the cache files that have held a valid entry
    stageFailed,  \* history: whether a stage of the task's own video failed
    abort         \* "none", or why asyncio.run cancelled the tasks

vars ==
    <<glossary, fs, pc, vid, title, transcript, readBuf, woff, prompt,
      prev_result, normalized, notes, results, lookups, opened, closed,
      written, stageFailed, abort>>

fetchVars == <<vid, title, transcript, readBuf, lookups>>
normVars == <<prompt, prev_result, normalized, results>>
fileVars == <<fs, woff, opened, closed, written>>

Tasks == 1..NumTasks

Pending == [kind |-> "pending", text |-> <<>>]
Returned(x) == [kind |-> "value", text |-> x]
ReturnedNone == [kind |-> "none", text |-> <<>>]
Raised == [kind |-> "raised", text |-> <<>>]

NoRead == [ok |-> FALSE, text |-> <<>>]

Set(f, t, v) == [f EXCEPT ![t] = v]

Note(t, msgs) == notes' = [notes EXCEPT ![t] = @ \o msgs]

InitTasks(g, pc0, ti0, tr0, prompt0) ==
    /\ glossary = g
    /\ fs = <<>>
    /\ pc = pc0
    /\ vid = [t \in DOMAIN pc0 |-> ""]
    /\ title = ti0
    /\ transcript = tr0
    /\ readBuf = [t \in DOMAIN pc0 |-> NoRead]
    /\ woff = [t \in DOMAIN pc0 |-> 0]
    /\ prompt = prompt0
    /\ prev_result = [t \in DOMAIN pc0 |-> <<>>]
    /\ normalized = [t \in DOMAIN pc0 |-> Pending]
    /\ notes = [t \in DOMAIN pc0 |-> <<>>]
    /\ results = [t \in DOMAIN pc0 |-> <<>>]
    /\ lookups = [t \in DOMAIN pc0 |-> <<>>]
    /\ opened = [t \in DOMAIN pc0 |-> {}]
    /\ closed = [t \in DOMAIN pc0 |-> {}]
    /\ written = {}
    /\ stageFailed = [t \in DOMAIN pc0 |-> FALSE]
    /\ abort = "none"

Empty == [t \in Tasks |-> <<>>]

(***************************************************************************)
(* fetch_transcript.                                                       *)
(***************************************************************************)
\* fetch_transcript returns (title, transcript) to process_video, which calls
\* normalize_transcript: the prompt is built and the first call goes out.
StartNormalize(t, ti, tr) ==
    /\ prompt' = Set(prompt, t, SeedPrompt(glossary, ti, tr))
    /\ pc' = Set(pc, t, "api_call")

\* The messages sent when no transcript comes back: get_youtube_transcript's
\* own when the provider raised, then process_video's "No transcript found".
NoTranscriptNotes_Silent(kind) ==
    IF kind = "raise" THEN <<"transcript_error">> ELSE <<>>

NoTranscriptNotes(kind) ==
    (IF kind = "raise" THEN <<"transcript_error">> ELSE <<>>) \o <<"no_transcript">>

\* get_youtube_transcript(video_id) with the provider's outcome tro, then the
\* rest of fetch_transcript and of process_video up to their next await.
\* ns are the task's messages so far.
FetchFromProvider(t, ti, tro, ns) ==
    /\ lookups' = [lookups EXCEPT ![t] = Append(@, tro.kind)]
    /\ IF tro.kind = "content" /\ Truthy(tro.text)
       THEN /\ title' = Set(title, t, ti)
            /\ transcript' = Set(transcript, t, tro.text)
            /\ notes' = Set(notes, t, ns)
            /\ pc' = Set(pc, t, "wc_open")
            /\ UNCHANGED stageFailed
       ELSE /\ notes' = Set(notes, t, ns \o NoTranscriptNotes(tro.kind))
            /\ pc' = Set(pc, t, "done")
            /\ stageFailed' = Set(stageFailed, t, TRUE)
            /\ UNCHANGED <<title, transcript>>

\* process_video up to its first await: ydl.extract_info, the cache file's
\* exists() and, if there is no file, the provider's transcript.
PvStart(t, info, tro) ==
    /\ pc[t] = "start"
    /\ IF info.kind = "raise"
       THEN /\ notes' = Set(notes, t, <<"fetch_error">> \o NoTranscriptNotes("none"))
            /\ pc' = Set(pc, t, "done")
            /\ stageFailed' = Set(stageFailed, t, TRUE)
            /\ UNCHANGED <<vid, title, transcript, lookups>>
       ELSE /\ vid' = Set(vid, t, info.id)
            /\ IF Exists(fs, get_cache_path(info.id))
               THEN /\ title' = Set(title, t, info.title)
                    /\ pc' = Set(pc, t, "rc_read")
                    /\ UNCHANGED <<transcript, lookups, notes, stageFailed>>
               ELSE FetchFromProvider(t, info.title, tro, notes[t])
    /\ UNCHANGED <<glossary, readBuf, normVars, fileVars, abort>>

\* read_from_cache's f.read() in the thread pool; it raises when ok is FALSE.
RcRead(t, ok) ==
    /\ pc[t] = "rc_read"
    /\ readBuf' = Set(readBuf, t,
           IF ok THEN [ok |-> TRUE, text |-> fs[get_cache_path(vid[t])]] ELSE NoRead)
    /\ pc' = Set(pc, t, "rc_wake")
    /\ UNCHANGED <<glossary, vid, title, transcript, lookups, normVars, fileVars,
                   notes, stageFailed, abort>>

\* fetch_transcript resumes with what read_from_cache returns: on a hit it
\* returns the cached pair, otherwise it asks the provider.
RcWake(t, tro) ==
    /\ pc[t] = "rc_wake"
    /\ LET r == ReadFromCache(readBuf[t])
           ns == notes[t] \o (IF r.err THEN <<"cache_read_error">> ELSE <<>>)
       IN  IF CacheHit(r)
           THEN /\ title' = Set(title, t, r.title)
                /\ transcript' = Set(transcript, t, r.transcript)
                /\ StartNormalize(t, r.title, r.transcript)
                /\ notes' = Set(notes, t, ns)
                /\ UNCHANGED <<lookups, stageFailed>>
           ELSE /\ FetchFromProvider(t, title[t], tro, ns)
                /\ UNCHANGED prompt
    /\ UNCHANGED <<glossary, vid, readBuf, prev_result, normalized, results,
                   fileVars, abort>>

(***************************************************************************)
(* async with aiofiles.open(path, "w") as f: await f.write(data)           *)
(* The open truncates the file; the write may put a leading part of the    *)
(* data on disk; the close puts the rest there.                            *)
(***************************************************************************)
OpenW(t, path) ==
    /\ fs' = PutFile(fs, path, <<>>)
    /\ woff' = Set(woff, t, 0)
    /\ opened' = [opened EXCEPT ![t] = @ \cup {path}]
    /\ UNCHANGED <<closed, written>>

FlushW(t, path, data) ==
    /\ woff[t] = 0
    /\ FlushedPart(data) > 0
    /\ fs' = PutFile(fs, path, WriteAt(fs[path], 0, Take(data, FlushedPart(data))))
    /\ woff' = Set(woff, t, FlushedPart(data))
    /\ written' = written \cup ValidEntries(fs')
    /\ UNCHANGED <<opened, closed>>

CloseW(t, path, data) ==
    /\ fs' = PutFile(fs, path, WriteAt(fs[path], woff[t], Drop(data, woff[t])))
    /\ woff' = Set(woff, t, 0)
    /\ closed' = [closed EXCEPT ![t] = @ \cup {path}]
    /\ written' = written \cup ValidEntries(fs')
    /\ UNCHANGED opened

CacheData(t) == JsonDumps(title[t], transcript[t])

\* write_to_cache's open.  When it raises (ok is FALSE) write_to_cache sends
\* the error and returns, and fetch_transcript returns the fetched pair.
WcOpen(t, ok) ==
    /\ pc[t] = "wc_open"
    /\ IF ok
       THEN /\ OpenW(t, get_cache_path(vid[t]))
            /\ pc' = Set(pc, t, "wc_write")
            /\ UNCHANGED <<notes, prompt>>
       ELSE /\ Note(t, <<"cache_write_error">>)
            /\ StartNormalize(t, title[t], transcript[t])
            /\ UNCHANGED fileVars
    /\ UNCHANGED <<glossary, fetchVars, prev_result, normalized, results,
                   stageFailed, abort>>

WcFlush(t) ==
    /\ pc[t] = "wc_write"
    /\ FlushW(t, get_cache_path(vid[t]), CacheData(t))
    /\ UNCHANGED <<glossary, pc, fetchVars, normVars, notes, stageFailed, abort>>

\* f.write or the close raises (the disk is full, say): what is on disk of
\* the file stays, write_to_cache sends the error and returns, and
\* fetch_transcript returns the fetched pair.
WcFail(t) ==
    /\ pc[t] = "wc_write"
    /\ woff' = Set(woff, t, 0)
    /\ Note(t, <<"cache_write_error">>)
    /\ StartNormalize(t, title[t], transcript[t])
    /\ UNCHANGED <<glossary, fs, opened, closed, written, fetchVars, prev_result,
                   normalized, results, stageFailed, abort>>

\* The cache file is closed; write_to_cache and fetch_transcript return.
WcClose(t) ==
    /\ pc[t] = "wc_write"
    /\ CloseW(t, get_cache_path(vid[t]), CacheData(t))
    /\ StartNormalize(t, title[t], transcript[t])
    /\ UNCHANGED <<glossary, fetchVars, prev_result, normalized, results, notes,
                   stageFailed, abort>>

(***************************************************************************)
(* normalize_transcript's loop: call_openai_api returns or raises, and     *)
(* process_video goes on with what normalize_transcript hands back.        *)
(***************************************************************************)
\* process_video's except Exception: the message is sent and the task ends.
ProcessVideoCatch_Reraise == "raised"

ProcessVideoCatch == "done"

\* if not normalized: return
AfterNormalize_WriteAnyway(ret) ==
    IF ret.kind = "raised"
    THEN [pc |-> ProcessVideoCatch, notes |-> <<"process_error">>, failed |-> TRUE]
    ELSE [pc |-> "out_open", notes |-> <<>>, failed |-> FALSE]

AfterNormalize(ret) ==
    IF ret.kind = "raised"
    THEN [pc |-> ProcessVideoCatch, notes |-> <<"process_error">>, failed |-> TRUE]
    ELSE IF ~Truthy(ret.text)
    THEN [pc |-> "done", notes |-> <<>>, failed |-> TRUE]
    ELSE [pc |-> "out_open", notes |-> <<>>, failed |-> FALSE]

ApiReturn(t, o) ==
    /\ pc[t] = "api_call"
    /\ Len(results[t]) < MaxCalls
    /\ results' = [results EXCEPT ![t] = Append(@, o)]
    /\ LET step == NormalizeStep(prompt[t], prev_result[t], o)
           ret == CASE step.next = "return" -> Returned(step.ret)
                    [] step.next = "none" -> ReturnedNone
                    [] step.next = "raise" -> Raised
                    [] OTHER -> Pending
           after == AfterNormalize(ret)
       IN  /\ prompt' = Set(prompt, t, step.prompt)
           /\ normalized' = Set(normalized, t, ret)
           /\ IF step.next = "loop"
              THEN UNCHANGED <<pc, notes, stageFailed>>
              ELSE /\ pc' = Set(pc, t, after.pc)
                   /\ Note(t, (IF step.next = "raise"
                               THEN <<"api_error", "normalize_error">>
                               ELSE <<>>) \o after.notes)
                   /\ stageFailed' = Set(stageFailed, t, after.failed)
    /\ UNCHANGED <<glossary, fetchVars, prev_result, fileVars, abort>>

\* The output file's open; when it raises (ok is FALSE) process_video's
\* except sends the error.
OutOpen(t, ok) ==
    /\ pc[t] = "out_open"
    /\ IF ok
       THEN /\ OpenW(t, OutputPath(title[t]))
            /\ pc' = Set(pc, t, "out_write")
            /\ UNCHANGED <<notes, stageFailed>>
       ELSE /\ Note(t, <<"process_error">>)
            /\ pc' = Set(pc, t, ProcessVideoCatch)
            /\ stageFailed' = Set(stageFailed, t, TRUE)
            /\ UNCHANGED fileVars
    /\ UNCHANGED <<glossary, fetchVars, normVars, abort>>

OutFlush(t) ==
    /\ pc[t] = "out_write"
    /\ FlushW(t, OutputPath(title[t]), normalized[t].text)
    /\ UNCHANGED <<glossary, pc, fetchVars, normVars, notes, stageFailed, abort>>

\* The output file is closed and process_video sends its success message.
OutClose(t) ==
    /\ pc[t] = "out_write"
    /\ CloseW(t, OutputPath(title[t]), normalized[t].text)
    /\ Note(t, <<"success">>)
    /\ pc' = Set(pc, t, "done")
    /\ UNCHANGED <<glossary, fetchVars, normVars, stageFailed, abort>>

(***************************************************************************)
(* asyncio.run(process_all_videos()): gather hands on the first exception  *)
(* a task raises, and asyncio.run then cancels the tasks still running; a  *)
(* KeyboardInterrupt does the same.  A cancelled task stops at its await   *)
(* and what its writer had put on disk stays.                              *)
(***************************************************************************)
Finished == {"done", "raised", "cancelled"}

AbortCauses == {"interrupt"} \cup {pc[t] : t \in {u \in Tasks : pc[u] = "raised"}}

Abort(cause) ==
    /\ abort = "none"
    /\ cause \in AbortCauses
    /\ \E t \in Tasks : pc[t] \notin Finished
    /\ abort' = cause
    /\ pc' = [t \in Tasks |-> IF pc[t] \in Finished THEN pc[t] ELSE "cancelled"]
    /\ UNCHANGED <<glossary, fetchVars, normVars, fileVars, notes, stageFailed>>

(***************************************************************************)
(* The run of main's tasks: every URL's task starts at once and the tasks  *)
(* interleave at their awaits.                                             *)
(***************************************************************************)
NoInfo == [kind |-> "raise", id |-> "", title |-> <<>>]
Info(id, ti) == [kind |-> "info", id |-> id, title |-> ti]

PipeGlossary == <<"g">>
PipeInfos == {NoInfo, Info("v1", <<"a">>), Info("v2", <<"a", "?">>)}
PipeTranscripts == {Raise, NoContent, Content(<<"r">>)}
PipeOutcomes == {Raise, NoContent, Content(<<"x">>), Content(THE_END)}

Init == InitTasks(PipeGlossary, [t \in Tasks |-> "start"], Empty, Empty, Empty)

Next ==
    \/ \E t \in Tasks, info \in PipeInfos, tro \in PipeTranscripts : PvStart(t, info, tro)
    \/ \E t \in Tasks, ok \in BOOLEAN : RcRead(t, ok)
    \/ \E t \in Tasks, tro \in PipeTranscripts : RcWake(t, tro)
    \/ \E t \in Tasks, ok \in BOOLEAN : WcOpen(t, ok)
    \/ \E t \in Tasks : WcFlush(t)
    \/ \E t \in Tasks : WcClose(t)
    \/ \E t \in Tasks : WcFail(t)
    \/ \E t \in Tasks, o \in PipeOutcomes : ApiReturn(t, o)
    \/ \E t \in Tasks, ok \in BOOLEAN : OutOpen(t, ok)
    \/ \E t \in Tasks : OutFlush(t)
    \/ \E t \in Tasks : OutClose(t)
    \/ \E cause \in AbortCauses : Abort(cause)

Spec == Init /\ [][Next]_vars

(***************************************************************************)
(* fetch_transcript called for one URL after the other: each call starts   *)
(* when the call before it has returned.                                   *)
(***************************************************************************)
SeqTitles == {<<"a">>, <<DQ>>, <<"a", BS>>, <<BS, "n">>, <<NL, "a">>}
SeqInfos == {NoInfo, Info("v2", <<"b">>)} \cup {Info("v1", ti) : ti \in SeqTitles}
SeqTranscripts == {Raise, NoContent, Content(<<"r">>), Content(<<DQ, BS, DQ>>)}

\* fetch_transcript has returned: process_video has ended for want of a
\* transcript, or gone on to normalize_transcript's first call.
FetchReturned(t) == pc[t] \in {"done", "api_call"}

Turn(t) == \A u \in Tasks : u < t => FetchReturned(u)

NextSeq ==
    \/ \E t \in Tasks, info \in SeqInfos, tro \in SeqTranscripts :
          Turn(t) /\ PvStart(t, info, tro)
    \/ \E t \in Tasks, ok \in BOOLEAN : RcRead(t, ok)
    \/ \E t \in Tasks, tro \in SeqTranscripts : RcWake(t, tro)
    \/ \E t \in Tasks, ok \in BOOLEAN : WcOpen(t, ok)
    \/ \E t \in Tasks : WcFlush(t)
    \/ \E t \in Tasks : WcClose(t)
    \/ \E t \in Tasks : WcFail(t)

SpecSeq == Init /\ [][NextSeq]_vars

(***************************************************************************)
(* The fetch_transcript calls of a run's tasks, interleaving at their      *)
(* awaits; several URLs may resolve to one video.  Each task is followed   *)
(* until its fetch_transcript has returned.                                *)
(***************************************************************************)
Fetchers == 1..NumFetchers

FetchInfos == {Info("v1", <<"a">>), Info("v2", <<"b">>)}
FetchTranscripts == {Raise, Content(<<"r">>)}

InitFetch ==
    InitTasks(PipeGlossary,
              [t \in Fetchers |-> "start"],
              [t \in Fetchers |-> <<>>],
              [t \in Fetchers |-> <<>>],
              [t \in Fetchers |-> <<>>])

NextFetch ==
    \/ \E t \in Fetchers, info \in FetchInfos, tro \in FetchTranscripts :
          PvStart(t, info, tro)
    \/ \E t \in Fetchers, ok \in BOOLEAN : RcRead(t, ok)
    \/ \E t \in Fetchers, tro \in FetchTranscripts : RcWake(t, tro)
    \/ \E t \in Fetchers, ok \in BOOLEAN : WcOpen(t, ok)
    \/ \E t \in Fetchers : WcFlush(t)
    \/ \E t \in Fetchers : WcClose(t)
    \/ \E t \in Fetchers : WcFail(t)

SpecFetch == InitFetch /\ [][NextFetch]_vars

(***************************************************************************)
(* normalize_transcript on its own: one call of it, from the prompt it     *)
(* builds to what it hands back.                                           *)
(***************************************************************************)
SamePrefix == [i \in 1..PrefixLen |-> "a"]

NormHeads == {<<>>, SamePrefix}
NormBodies == {<<>>, <<"x">>, <<"y">>, <<"[">>, <<"]">>, <<START_MARKER>>}
NormTails == {<<>>, THE_END, THE_END \o <<" ">>}
NormChunks ==
    {h \o b \o e : h \in NormHeads, b \in NormBodies, e \in NormTails}
    \cup {THE_END \o <<"x">>, <<"[">> \o THE_END \o <<NL>>}
NormOutcomes == {Raise, NoContent} \cup {Content(c) : c \in NormChunks}

NormGlossaries == {<<"g">>, <<"g", START_MARKER>>}
NormTitles == {<<"t">>}
NormTranscripts == {<<"r">>, <<"[", "r", "]">>}

InitNorm ==
    \E g \in NormGlossaries, ti \in NormTitles, tr \in NormTranscripts :
        InitTasks(g,
                  [t \in Tasks |-> IF t = 1 THEN "api_call" ELSE "done"],
                  [t \in Tasks |-> IF t = 1 THEN ti ELSE <<>>],
                  [t \in Tasks |-> IF t = 1 THEN tr ELSE <<>>],
                  [t \in Tasks |-> IF t = 1 THEN SeedPrompt(g, ti, tr) ELSE <<>>])

NextNorm == \E o \in NormOutcomes : ApiReturn(1, o)

SpecNorm == InitNorm /\ [][NextNorm]_vars

(***************************************************************************)
(* process_video from normalize_transcript's call to the output file, for  *)
(* one video whose title needs sanitizing.                                 *)
(***************************************************************************)
\* n times the character c.
Repeat(c, n) == [i \in 1..n |-> c]

SanHeads == {<<>>, <<" ">>, <<"\t", " ">>}
SanBodies ==
    {<<>>, <<"?">>, <<"M", "y", ":", " ", "V", "i", "d", "?", " ", "#", "1">>,
     <<"a", " ", " ", "b">>, <<"_", "-", ".">>, <<"a", "/", ".", ".", "\\", "b">>,
     <<"a", NL, "b", "\t", "c">>,
     Repeat("a", MaxFilenameLen - 1) \o <<" ", "b", "c">>,
     Repeat("a", MaxFilenameLen - 2) \o <<"?", " ", "b", " ", "c">>,
     Repeat(" ", MaxFilenameLen + 1) \o <<"z">>}
SanTails == {<<>>, <<" ">>, <<"!", NL>>}
SanTitles == {h \o b \o e : h \in SanHeads, b \in SanBodies, e \in SanTails}

InitSan ==
    \E ti \in SanTitles :
        InitTasks(PipeGlossary,
                  [t \in Tasks |-> IF t = 1 THEN "api_call" ELSE "done"],
                  [t \in Tasks |-> IF t = 1 THEN ti ELSE <<>>],
                  [t \in Tasks |-> IF t = 1 THEN <<"r">> ELSE <<>>],
                  [t \in Tasks |-> IF t = 1 THEN SeedPrompt(PipeGlossary, ti, <<"r">>)
                                   ELSE <<>>])

NextSan ==
    \/ ApiReturn(1, Content(THE_END))
    \/ \E ok \in BOOLEAN : OutOpen(1, ok)
    \/ OutFlush(1)
    \/ OutClose(1)

SpecSan == InitSan /\ [][NextSan]_vars

(***************************************************************************)
(* Properties of normalize_transcript.                                     *)
(***************************************************************************)
\* A completion that came back with text in it.
IsChunk(o) == o.kind = "content" /\ o.text # <<>>

\* The termination condition as the specification words it.
SentinelWithoutBrackets(text) ==
    /\ EndsWith(Strip(text), THE_END)
    /\ "[" \notin Range(text)
    /\ "]" \notin Range(text)

\* The chunks of a run that the duplicate guard is to let through: each one
\* whose first 20 characters differ from those of the chunk before it.
RECURSIVE NonDuplicates(_, _)
NonDuplicates(chunks, prev) ==
    IF chunks = <<>> THEN <<>>
    ELSE IF Take(Head(chunks), 20) = Take(prev, 20)
         THEN NonDuplicates(Tail(chunks), Head(chunks))
         ELSE <<Head(chunks)>> \o NonDuplicates(Tail(chunks), Head(chunks))

Texts(os) == [i \in 1..Len(os) |-> os[i].text]

MarkerFree(t) ==
    /\ START_MARKER \notin Range(glossary) \cup Range(title[t]) \cup Range(transcript[t])
    /\ \A i \in 1..Len(results[t]) : START_MARKER \notin Range(results[t][i].text)

\* C1: when the results of two consecutive completion calls share their first
\* 20 characters, the second result is not appended to the prompt, and the
\* loop is left on it exactly when it meets the termination condition.
C1_DuplicateNotAppended ==
    [][\A t \in Tasks :
         ( /\ Len(results[t]) >= 1
           /\ Len(results'[t]) = Len(results[t]) + 1
           /\ IsChunk(Last(results[t]))
           /\ IsChunk(Last(results'[t]))
           /\ Take(Last(results'[t]).text, 20) = Take(Last(results[t]).text, 20) )
         => /\ prompt'[t] = prompt[t]
            /\ (normalized'[t].kind = "value")
                 <=> SentinelWithoutBrackets(Last(results'[t]).text)]_vars

\* C2: when normalize_transcript returns a text, every completion before the
\* last came back non-empty and short of the termination condition, the last
\* one met it, and the text returned is the concatenation, in call order, of
\* the non-duplicate chunks, with nothing of the seed prompt in it (stated
\* for runs whose inputs and completions do not hold the start marker).
C2_ReturnsNonDuplicateChunks ==
    \A t \in Tasks :
        (normalized[t].kind = "value" /\ MarkerFree(t))
        => /\ \A i \in 1..Len(results[t]) :
                /\ IsChunk(results[t][i])
                /\ SentinelWithoutBrackets(results[t][i].text) <=> i = Len(results[t])
           /\ normalized[t].text = Concat(NonDuplicates(Texts(results[t]), <<>>))

\* C3: the loop is left after a non-empty completion result if and only if
\* the result, trimmed, ends with THE END and holds neither "[" nor "]".
C3_StopsIffSentinelWithoutBrackets ==
    \A t \in Tasks : \A i \in 1..Len(results[t]) :
        IsChunk(results[t][i])
        => ( (i = Len(results[t]) /\ normalized[t].kind = "value")
             <=> SentinelWithoutBrackets(results[t][i].text) )

\* A result that ends with THE END and holds a bracket was followed by
\* another call, whose result ended the loop.
C3_Witness ==
    \E t \in Tasks :
        /\ Len(results[t]) = 2
        /\ EndsWith(Strip(results[t][1].text), THE_END)
        /\ "[" \in Range(results[t][1].text)
        /\ normalized[t].kind = "value"

\* C5: an empty or missing completion content ends normalize_transcript at
\* once: it is the last call, None is returned and no call is pending.
C5_EmptyContentAborts ==
    \A t \in Tasks : \A i \in 1..Len(results[t]) :
        (results[t][i].kind # "raise" /\ results[t][i].text = <<>>)
        => /\ i = Len(results[t])
           /\ normalized[t] = ReturnedNone
           /\ pc[t] = "done"

\* A chunk was appended and the next call came back empty.
C5_Witness ==
    \E t \in Tasks :
        /\ Len(results[t]) = 2
        /\ IsChunk(results[t][1])
        /\ Last(results[t]).kind # "raise"
        /\ Last(results[t]).text = <<>>
        /\ Len(prompt[t]) > Len(SeedPrompt(glossary, title[t], transcript[t]))
        /\ normalized[t] = ReturnedNone

\* The positions of the start marker in a prompt.
Markers(p) == {i \in 1..Len(p) : p[i] = START_MARKER}

\* C16: whatever the glossary, the title, the transcript and the completion
\* results, the prompt of a normalize_transcript holds the start marker
\* exactly once at every iteration, and the text returned is all of the
\* prompt after the marker.
C16_ExactlyOneStartMarker ==
    \A t \in Tasks :
        prompt[t] # <<>>
        => /\ Cardinality(Markers(prompt[t])) = 1
           /\ normalized[t].kind = "value"
              => \A i \in Markers(prompt[t]) : normalized[t].text = Drop(prompt[t], i)

\* The texts of the results os whose index is in the set A, concatenated in
\* call order.
RECURSIVE ConcatOf(_, _, _)
ConcatOf(os, A, i) ==
    IF i > Len(os) THEN <<>>
    ELSE (IF i \in A THEN os[i].text ELSE <<>>) \o ConcatOf(os, A, i + 1)

Seed(t) == SeedPrompt(glossary, title[t], transcript[t])

\* C18: the prompt of a normalize_transcript only grows by appending.  The
\* seed stays its prefix and the prompt is the seed followed by results
\* accepted so far, in call order; an iteration takes one result and either
\* leaves the prompt as it is or appends exactly that result to it.
C18_PromptGrowsByAppending ==
    /\ [](\A t \in Tasks :
            prompt[t] # <<>>
            => /\ Take(prompt[t], Len(Seed(t))) = Seed(t)
               /\ \E A \in SUBSET (1..Len(results[t])) :
                     prompt[t] = Seed(t) \o ConcatOf(results[t], A, 1))
    /\ [][\A t \in Tasks :
            /\ Len(results'[t]) \in {Len(results[t]), Len(results[t]) + 1}
            /\ \/ prompt'[t] = prompt[t]
               \/ /\ pc[t] = "api_call"
                  /\ results'[t] = Append(results[t], Last(results'[t]))
                  /\ prompt'[t] = prompt[t] \o Last(results'[t]).text]_vars

\* Two results longer than 20 characters were appended one after the other.
C18_Witness ==
    \E t \in Tasks :
        /\ Len(results[t]) = 2
        /\ Len(results[t][1].text) > 20
        /\ Len(results[t][2].text) > 20
        /\ results[t][1].text # results[t][2].text
        /\ prompt[t] = Seed(t) \o results[t][1].text \o results[t][2].text

\* Every result so far came back non-empty and short of the termination
\* condition.
NeverTerminating(os) ==
    \A i \in 1..Len(os) : IsChunk(os[i]) /\ ~SentinelWithoutBrackets(os[i].text)

\* C19: normalize_transcript has no iteration cap: for as long as every
\* completion result is non-empty and short of the termination condition,
\* it has returned neither a result nor a failure and another call is out.
C19_NoIterationCap ==
    \A t \in Tasks :
        (results[t] # <<>> /\ NeverTerminating(results[t]))
        => /\ normalized[t] = Pending
           /\ pc[t] = "api_call"
           /\ prompt[t] = Seed(t) \o Concat(Texts(results[t]))

\* As many calls as the model follows have come back without the sentinel
\* and the loop is at its next call.
C19_Witness ==
    \E t \in Tasks :
        /\ Len(results[t]) = MaxCalls
        /\ NeverTerminating(results[t])
        /\ \E i \in 1..Len(results[t]) : EndsWith(Strip(results[t][i].text), THE_END)
        /\ pc[t] = "api_call"

OutputsOpened(t) == {path \in opened[t] : path[1] = OUTPUTS_DIR}

CacheErrors == {"cache_read_error", "cache_write_error"}

\* A task's messages without those of the cache.
RECURSIVE WithoutCacheErrors(_)
WithoutCacheErrors(ns) ==
    IF ns = <<>> THEN <<>>
    ELSE (IF Head(ns) \in CacheErrors THEN <<>> ELSE <<Head(ns)>>)
         \o WithoutCacheErrors(Tail(ns))

\* C4: a completion call that raises is the last call of its
\* normalize_transcript, which fails, and the video's task writes no output
\* file.
C4_CompletionFailureIsFinal ==
    \A t \in Tasks : \A i \in 1..Len(results[t]) :
        results[t][i].kind = "raise"
        => /\ i = Len(results[t])
           /\ normalized[t].kind = "raised"
           /\ pc[t] = "done"
           /\ OutputsOpened(t) = {}

\* The second call of a task raised while another task had an output file
\* open.
C4_Witness ==
    \E t \in Tasks :
        /\ Len(results[t]) = 2
        /\ results[t][2].kind = "raise"
        /\ IsChunk(results[t][1])
        /\ "process_error" \in Range(notes[t])

\* C6: a task whose normalization came back with nothing has sent a message
\* by the time it ends, and has written no output file.
C6_NotifiesWhenNothingNormalized ==
    \A t \in Tasks :
        ( /\ pc[t] = "done"
          /\ normalized[t].kind \in {"none", "value"}
          /\ ~Truthy(normalized[t].text) )
        => /\ WithoutCacheErrors(notes[t]) # <<>>
           /\ OutputsOpened(t) = {}

\* C7: no task is cancelled because of another task's failure, and a task
\* that has ended with none of its own stages failed has written its output
\* file and sent its success message.
C7_FailureIsolation ==
    \A t \in Tasks :
        /\ pc[t] = "cancelled" => abort = "interrupt"
        /\ (pc[t] = "done" /\ ~stageFailed[t])
           => /\ OutputPath(title[t]) \in closed[t]
              /\ Exists(fs, OutputPath(title[t]))
              /\ Last(notes[t]) = "success"

\* One task ended on a failed stage after the other had made its
\* completion call, and the other then ended with its output written.
C7_Witness ==
    \E t, u \in Tasks :
        /\ t # u
        /\ pc[u] = "done" /\ stageFailed[u]
        /\ "process_error" \in Range(notes[u])
        /\ pc[t] = "done" /\ ~stageFailed[t]
        /\ Last(notes[t]) = "success"

\* The task's transcript resolution failed: fetch_transcript returned no
\* transcript and process_video ended there.
ResolutionFailed(t) ==
    pc[t] = "done" /\ ~Truthy(transcript[t]) /\ results[t] = <<>>

\* C8 as stated: a video whose transcript resolution fails produces exactly
\* one failure message and no output file.
C8_ExactlyOneFailureNotification ==
    \A t \in Tasks :
        ResolutionFailed(t) => Len(notes[t]) = 1 /\ OutputsOpened(t) = {}

\* C8 as amended: such a video produces exactly one "No transcript found"
\* message, its last, preceded by the error message of the lookup that
\* raised when one did (cache messages aside), and no output file.
C8_ResolutionFailureNotifications ==
    \A t \in Tasks :
        ResolutionFailed(t)
        => /\ WithoutCacheErrors(notes[t]) =
                (IF vid[t] = "" THEN <<"fetch_error">>
                 ELSE IF Last(lookups[t]) = "raise" THEN <<"transcript_error">>
                 ELSE <<>>) \o <<"no_transcript">>
           /\ OutputsOpened(t) = {}

\* The provider's transcript lookup raised for a video: two messages.
C8_Witness ==
    \E t \in Tasks :
        /\ ResolutionFailed(t)
        /\ vid[t] # ""
        /\ Last(lookups[t]) = "raise"
        /\ notes[t] = <<"transcript_error", "no_transcript">>

\* The stages of fetch_transcript, before it has returned.
FetchStages == {"start", "rc_read", "rc_wake", "wc_open", "wc_write"}

\* C17: in a task the steps come in the order retrieval, normalization,
\* output, success message: a completion call is made only when
\* fetch_transcript has returned a transcript, the output file is opened
\* only when normalize_transcript has returned a text, and the success
\* message is sent only when the output file has been written and closed,
\* as the task's last step.
C17_StepsInOrder ==
    \A t \in Tasks :
        /\ (pc[t] = "api_call" \/ results[t] # <<>>)
           => Truthy(transcript[t]) /\ pc[t] \notin FetchStages
        /\ pc[t] \in FetchStages
           => results[t] = <<>> /\ prompt[t] = <<>> /\ OutputsOpened(t) = {}
        /\ OutputsOpened(t) # {}
           => /\ normalized[t].kind = "value" /\ Truthy(normalized[t].text)
              /\ results[t] # <<>> /\ ShouldStop(Last(results[t]).text)
              /\ OutputsOpened(t) = {OutputPath(title[t])}
        /\ ("success" \in Range(notes[t]))
           => /\ OutputPath(title[t]) \in closed[t]
              /\ Last(notes[t]) = "success"
              /\ pc[t] = "done"
        /\ (normalized[t].kind = "pending" /\ pc[t] # "api_call")
           => results[t] = <<>> \/ pc[t] = "cancelled"

\* A task went through all four steps: the provider's transcript, two
\* completion calls, the output file and the success message.
C17_Witness ==
    \E t \in Tasks :
        /\ lookups[t] = <<"content">>
        /\ Len(results[t]) = 2
        /\ OutputPath(title[t]) \in closed[t]
        /\ fs[OutputPath(title[t])] = normalized[t].text
        /\ Last(notes[t]) = "success"

(***************************************************************************)
(* Properties of the cache.                                                *)
(***************************************************************************)
\* Task t wrote and closed its cache file, and no later call has opened
\* that file for writing before call u.
WroteBefore(t, u) ==
    /\ t < u
    /\ vid[t] # "" /\ vid[u] = vid[t]
    /\ get_cache_path(vid[t]) \in closed[t]
    /\ \A w \in Tasks : (t < w /\ w < u) => get_cache_path(vid[t]) \notin opened[w]

\* Call u has read the cache file without an I/O failure and gone on.
ReadDone(u) == readBuf[u].ok /\ FetchReturned(u)

\* C9: once write_to_cache(id, title, transcript) has completed and while no
\* other write to the id has begun, the file read back gives exactly
\* (title, transcript), and so does a read_from_cache made by a later call.
C9_CacheRoundTrip ==
    \A t \in Tasks :
        (get_cache_path(vid[t]) \in closed[t])
        => /\ (\A w \in Tasks : w > t => get_cache_path(vid[t]) \notin opened[w])
              => LET r == ReadFromCache([ok |-> TRUE, text |-> fs[get_cache_path(vid[t])]])
                 IN  r.title = title[t] /\ r.transcript = transcript[t] /\ ~r.err
           /\ \A u \in Tasks :
                (WroteBefore(t, u) /\ ReadDone(u))
                => title[u] = title[t] /\ transcript[u] = transcript[t]

\* A title and a transcript that need escaping were written and read back.
C9_Witness ==
    \E t, u \in Tasks :
        /\ WroteBefore(t, u) /\ ReadDone(u)
        /\ DQ \in Range(title[t])
        /\ BS \in Range(transcript[t])
        /\ title[u] = title[t]

\* Call t of fetch_transcript returned a transcript and call u, for the
\* same video, came after it.
FetchedBefore(t, u) ==
    /\ t < u
    /\ vid[t] # "" /\ vid[u] = vid[t]
    /\ Truthy(transcript[t])
    /\ FetchReturned(u)

C13_NoRefetchOfWrittenEntry ==
    [][\A u \in Fetchers :
         (lookups'[u] # lookups[u] /\ ~(pc[u] = "rc_wake" /\ ~readBuf[u].ok))
         => get_cache_path(vid'[u]) \notin written]_vars

\* The complete records that the tasks of the run write or have read.
Records == {CacheData(t) : t \in {u \in Tasks : Truthy(transcript[u])}}

\* C14: at every await of write_to_cache, and after an interrupt there, a
\* cache file that exists holds a complete record, and what a
\* read_from_cache has read of a cache file is a complete record.
C14_CacheWritesAllOrNothing ==
    /\ \A path \in DOMAIN fs : path[1] = CACHE_DIR => fs[path] \in Records
    /\ \A t \in Tasks : readBuf[t].ok => readBuf[t].text \in Records

\* normalize_transcript has been entered with the pair the task holds.
Normalizing(t) ==
    /\ pc[t] \notin {"start", "rc_read", "rc_wake", "wc_open", "wc_write"}
    /\ Len(prompt[t]) >= Len(SeedPrompt(glossary, title[t], transcript[t]))
    /\ Take(prompt[t], Len(SeedPrompt(glossary, title[t], transcript[t])))
         = SeedPrompt(glossary, title[t], transcript[t])

\* C15: a read_from_cache that fails is a miss, so the provider is asked, and
\* a write_to_cache that fails changes nothing of the call's outcome: with a
\* transcript from the provider, fetch_transcript returns the fetched pair
\* and the task goes on to normalize_transcript.
C15_CacheFailuresDoNotAbort ==
    \A t \in Tasks :
        /\ ("cache_read_error" \in Range(notes[t]))
           => /\ lookups[t] # <<>>
              /\ Last(lookups[t]) = "content"
                 => /\ Truthy(transcript[t])
                    /\ pc[t] \in {"wc_open", "wc_write"} \/ Normalizing(t)
        /\ ("cache_write_error" \in Range(notes[t]))
           => /\ Last(lookups[t]) = "content"
              /\ Truthy(transcript[t])
              /\ Normalizing(t)
              /\ get_cache_path(vid[t]) \notin closed[t]

\* A call whose read of the cache file failed and whose write failed too
\* returned the pair it had fetched.
C15_Witness ==
    \E t \in Tasks :
        /\ "cache_read_error" \in Range(notes[t])
        /\ "cache_write_error" \in Range(notes[t])
        /\ ~readBuf[t].ok
        /\ lookups[t] = <<"content">>
        /\ pc[t] = "api_call"
        /\ prompt[t] = SeedPrompt(glossary, title[t], transcript[t])

(***************************************************************************)
(* Properties of the output files.                                         *)
(***************************************************************************)
\* C11: two distinct videos of a run never write to the same output path.
C11_DistinctVideosDistinctOutputs ==
    \A t, u \in Tasks :
        (vid[t] # "" /\ vid[u] # "" /\ vid[t] # vid[u])
        => OutputsOpened(t) \cap OutputsOpened(u) = {}

\* The characters of the stripped title that survive sanitizing, in order.
Kept(ti) == SelectSeq(Strip(ti), LAMBDA c : c \in AllowedChars \cup {" "})

\* The name of a file in the outputs directory, without its ".txt".
Stem(path) == SubSeq(path[2], 1, Len(path[2]) - 1)

\* C12: sanitize_filename(title) holds only characters of [A-Za-z0-9_.-],
\* has an underscore wherever the stripped title has a space (up to the
\* cut), and is at most 200 characters long.
C12_SanitizedFileName ==
    \A t \in Tasks : \A path \in OutputsOpened(t) :
        LET name == sanitize_filename(title[t])
            kept == Kept(title[t])
        IN  /\ Range(name) \subseteq AllowedChars
            /\ Len(name) <= 200
            /\ Len(name) = (IF Len(kept) <= 200 THEN Len(kept) ELSE 200)
            /\ \A i \in 1..Len(name) :
                    name[i] = (IF kept[i] = " " THEN "_" ELSE kept[i])
            /\ name # <<>> => Stem(path) = name

\* The output file of a title longer than 200 characters with inner spaces
\* and a character that is removed was opened under a 200-character name.
C12_Witness ==
    \E t \in Tasks : \E path \in OutputsOpened(t) :
        /\ Len(Strip(title[t])) > 200
        /\ " " \in Range(Strip(title[t]))
        /\ "?" \in Range(title[t])
        /\ Len(Stem(path)) = 200
        /\ "_" \in Range(Stem(path))

====
